---- MODULE Spec2Model ----
(***************************************************************************)
(* Atlas AI gateway: the provider-orchestration layer of                   *)
(*   src/server/routes/ai.js  (Express router, deployment "server")        *)
(*   src/api/index.js         (standalone Vercel function, deployment     *)
(*                             "api")                                      *)
(* One behaviour of the model is one HTTP request travelling through the   *)
(* middleware chain and the route handler of one deployment.  The handler  *)
(* is cut at its await points: the fetch promise and the body read.        *)
(***************************************************************************)
EXTENDS Integers, Sequences, FiniteSets, TLC

(***************************************************************************)
(* Texts.  A provider's assistant text is a sequence of lexical tokens:    *)
(*   "fence_json" "fence"  the code-fence markers, with and without json  *)
(*   " "               whitespace                                          *)
(*   "w"               prose (characters that are no JSON punctuation)     *)
(*   "{" "}" "[" "]" "," JSON punctuation                                  *)
(*   "script:"         the member name "script" with its colon             *)
(*   "k:"              any other member name with its colon                *)
(*   "n"               a truthy JSON scalar (a string or a number)         *)
(*   "null"            the JSON literal null                               *)
(***************************************************************************)
FenceTokens == {"fence_json", "fence"}

IsSpace(tok) == tok = " "

RECURSIVE TrimLeft(_)
TrimLeft(s) ==
    IF s # <<>> /\ IsSpace(Head(s)) THEN TrimLeft(Tail(s)) ELSE s

RECURSIVE TrimRight(_)
TrimRight(s) ==
    IF s # <<>> /\ IsSpace(s[Len(s)]) THEN TrimRight(SubSeq(s, 1, Len(s) - 1)) ELSE s

\* String.prototype.trim
Trim(s) == TrimRight(TrimLeft(s))

\* resultText.replace(/<fence>json|<fence>/g, '').trim()
StripFences(s) == Trim(SelectSeq(s, LAMBDA tok : tok \notin FenceTokens))

(***************************************************************************)
(* JSON values are pairs <<tag, payload>>:                                 *)
(*   <<"scalar", <<>>>>, <<"null", <<>>>>,                                 *)
(*   <<"array", <<v1, ..., vn>>>>,                                         *)
(*   <<"object", <<m1, ..., mn>>>> with members <<memberName, <<value>>>>. *)
(* Undefined is JavaScript's undefined.                                    *)
(***************************************************************************)
Undefined == <<"undefined", <<>>>>

JsonNull == <<"null", <<>>>>

NoParse == [ok |-> FALSE, val |-> Undefined, nxt |-> 0]

RECURSIVE ParseValue(_, _)
RECURSIVE ParseElements(_, _, _)
RECURSIVE ParseMembers(_, _, _)

\* elements of an array after its "[" and after each ","; acc holds the values read
ParseElements(s, i, acc) ==
    LET v == ParseValue(s, i) IN
    IF ~v.ok \/ v.nxt > Len(s) THEN NoParse
    ELSE IF s[v.nxt] = "]"
         THEN [ok |-> TRUE, val |-> <<"array", Append(acc, v.val)>>, nxt |-> v.nxt + 1]
    ELSE IF s[v.nxt] = ","
         THEN ParseElements(s, v.nxt + 1, Append(acc, v.val))
    ELSE NoParse

\* members of an object after its "{" and after each ","
ParseMembers(s, i, acc) ==
    IF i > Len(s) \/ s[i] \notin {"script:", "k:"} THEN NoParse
    ELSE LET v == ParseValue(s, i + 1)
             m == <<s[i], <<v.val>>>>
         IN
         IF ~v.ok \/ v.nxt > Len(s) THEN NoParse
         ELSE IF s[v.nxt] = "}"
              THEN [ok |-> TRUE, val |-> <<"object", Append(acc, m)>>, nxt |-> v.nxt + 1]
         ELSE IF s[v.nxt] = ","
              THEN ParseMembers(s, v.nxt + 1, Append(acc, m))
         ELSE NoParse

\* one JSON value starting at token i of s
ParseValue(s, i) ==
    IF i > Len(s) THEN NoParse
    ELSE IF s[i] = "n" THEN [ok |-> TRUE, val |-> <<"scalar", <<>>>>, nxt |-> i + 1]
    ELSE IF s[i] = "null" THEN [ok |-> TRUE, val |-> JsonNull, nxt |-> i + 1]
    ELSE IF s[i] = "["
         THEN IF i + 1 <= Len(s) /\ s[i + 1] = "]"
              THEN [ok |-> TRUE, val |-> <<"array", <<>>>>, nxt |-> i + 2]
              ELSE ParseElements(s, i + 1, <<>>)
    ELSE IF s[i] = "{"
         THEN IF i + 1 <= Len(s) /\ s[i + 1] = "}"
              THEN [ok |-> TRUE, val |-> <<"object", <<>>>>, nxt |-> i + 2]
              ELSE ParseMembers(s, i + 1, <<>>)
    ELSE NoParse

\* JSON.parse: whitespace between tokens is insignificant, the whole text is one value
JsonParse(s) ==
    LET t == SelectSeq(s, LAMBDA tok : ~IsSpace(tok))
        v == ParseValue(t, 1)
    IN  IF v.ok /\ v.nxt = Len(t) + 1 THEN [ok |-> TRUE, val |-> v.val]
        ELSE [ok |-> FALSE, val |-> Undefined]

\* v.script for a non-null v: the last member named script, else undefined
ScriptOf(v) ==
    IF v[1] # "object" THEN Undefined
    ELSE LET idxs == {k \in 1..Len(v[2]) : v[2][k][1] = "script:"} IN
         IF idxs = {} THEN Undefined
         ELSE v[2][CHOOSE k \in idxs : \A j \in idxs : j <= k][2][1]

\* JavaScript truthiness of a value
Truthy(v) == v[1] \notin {"undefined", "null"}

\* finalJson.script || finalJson
ScriptOrRoot(v) == IF Truthy(ScriptOf(v)) THEN ScriptOf(v) ELSE v

\* position of the first non-space token at or after i (Len(s)+1 if none)
RECURSIVE SkipSpace(_, _)
SkipSpace(s, i) == IF i <= Len(s) /\ IsSpace(s[i]) THEN SkipSpace(s, i + 1) ELSE i

\* position of the last non-space token at or before i (0 if none)
RECURSIVE SkipSpaceBack(_, _)
SkipSpaceBack(s, i) == IF i >= 1 /\ IsSpace(s[i]) THEN SkipSpaceBack(s, i - 1) ELSE i

\* cleanedText.match(/\[\s*\{.*\}\s*\]/s): leftmost start, greedy end; <<>> if no match
MatchArrayOfObjects(s) ==
    LET ends(i) == {e \in (i + 1)..Len(s) :
                       /\ s[e] = "]"
                       /\ SkipSpaceBack(s, e - 1) > SkipSpace(s, i + 1)
                       /\ s[SkipSpaceBack(s, e - 1)] = "}"}
        starts == {i \in 1..Len(s) :
                       /\ s[i] = "["
                       /\ SkipSpace(s, i + 1) <= Len(s)
                       /\ s[SkipSpace(s, i + 1)] = "{"
                       /\ ends(i) # {}}
    IN  IF starts = {} THEN <<>>
        ELSE LET i == CHOOSE a \in starts : \A b \in starts : a <= b
                 e == CHOOSE a \in ends(i) : \A b \in ends(i) : b <= a
             IN  SubSeq(s, i, e)

\* clean.match(/\{.*\}/s)?.[0]: from the first "{" to the last "}"; <<>> if no match
MatchObject(s) ==
    LET opens == {i \in 1..Len(s) : s[i] = "{"}
        i == CHOOSE a \in opens : \A b \in opens : a <= b
        closes == {e \in 1..Len(s) : s[e] = "}" /\ e > i}
    IN  IF opens = {} \/ closes = {} THEN <<>>
        ELSE SubSeq(s, i, CHOOSE a \in closes : \A b \in closes : b <= a)

(***************************************************************************)
(* Error messages.  An Error is modelled by its message, the only part of  *)
(* it the handlers ever read (error.message, err.message).                 *)
(***************************************************************************)
NoError == "null"

\* AbortError thrown by fetch when controller.abort() runs
AbortMsg == "The user aborted a request."

\* FetchError thrown by fetch or by a body read on a transport failure
NetworkMsg == "request failed"

\* SyntaxError thrown by response.json() and JSON.parse
SyntaxMsg == "Unexpected token in JSON"

\* TypeError thrown on reading a property of undefined or null
TypeMsg == "Cannot read properties of undefined"

\* the text of a 2xx envelope without the assistant-text field, as callGemini returns it
UndefinedText == <<"undefined">>

(***************************************************************************)
(* Podcast structured parsing                                              *)
(***************************************************************************)
\* a parse that answers an unparseable text with an empty script
ParseScriptGuess(text) ==
    IF text = UndefinedText THEN [ok |-> FALSE, script |-> Undefined, error |-> TypeMsg]
    ELSE LET strict == JsonParse(StripFences(text)) IN
         IF strict.ok /\ strict.val # JsonNull
         THEN [ok |-> TRUE, script |-> ScriptOrRoot(strict.val), error |-> NoError]
         ELSE [ok |-> TRUE, script |-> <<"array", <<>>>>, error |-> NoError]

\* src/server/routes/ai.js lines 143-163: cleanup, strict parse, regex recovery
ParseScriptServer(text) ==
    IF text = UndefinedText THEN [ok |-> FALSE, script |-> Undefined, error |-> TypeMsg]
    ELSE LET cleanedText == StripFences(text)
             strict == JsonParse(cleanedText)
             match == MatchArrayOfObjects(cleanedText)
             frag == JsonParse(match)
         IN  \* a parsed null makes finalJson.script?.length throw inside the try
             IF strict.ok /\ strict.val # JsonNull
             THEN [ok |-> TRUE, script |-> ScriptOrRoot(strict.val), error |-> NoError]
             ELSE IF match = <<>>
             THEN [ok |-> FALSE, script |-> Undefined,
                   error |-> "AI returned invalid JSON structure"]
             ELSE IF ~frag.ok
             THEN [ok |-> FALSE, script |-> Undefined, error |-> SyntaxMsg]
             ELSE [ok |-> TRUE, script |-> frag.val, error |-> NoError]

\* src/api/index.js lines 199-205: cleanup, parse of the object fragment or of the text
ParseScriptApi(text) ==
    IF text = UndefinedText THEN [ok |-> FALSE, script |-> Undefined, error |-> TypeMsg]
    ELSE LET clean == StripFences(text)
             match == MatchObject(clean)
             parsed == JsonParse(IF match # <<>> THEN match ELSE clean)
         IN  IF ~parsed.ok
             THEN [ok |-> FALSE, script |-> Undefined, error |-> SyntaxMsg]
             ELSE IF parsed.val = JsonNull
             THEN [ok |-> FALSE, script |-> Undefined, error |-> TypeMsg]
             ELSE [ok |-> TRUE, script |-> ScriptOrRoot(parsed.val), error |-> NoError]

ParseScript(a, text) == IF a = "server" THEN ParseScriptServer(text) ELSE ParseScriptApi(text)

(***************************************************************************)
(* Configuration and program constants                                     *)
(***************************************************************************)
Apps == {"server", "api"}

Routes == {"groq", "gemini", "podcast"}

\* REQUEST_TIMEOUT in ms: 9000 in the router, 9500 in the standalone function
REQUEST_TIMEOUT(a) == IF a = "server" THEN 9000 ELSE 9500

\* "Vercel's 10s limit", in ms
HOST_LIMIT == 10000

\* versions and models of callGemini's cascade (the router); the standalone
\* function calls one fixed endpoint
Versions == <<"v1beta", "v1">>

Models == <<"gemini-1.5-flash", "gemini-1.5-flash-latest", "gemini-pro">>

CascadeLen(a) == IF a = "server" THEN Len(Versions) * Len(Models) ELSE 1

\* time in ms a provider takes when it answers before the deadline
Latency == 100

(***************************************************************************)
(* Request inputs                                                          *)
(***************************************************************************)
\* the Authorization header: absent, present without the Bearer prefix, a Bearer
\* token verifyIdToken rejects, a Bearer token it accepts
Authorizations == {"absent", "notBearer", "badToken", "goodToken"}

\* the provider field of a podcast body
Providers == {"auto", "groq", "gemini"}

\* the model field of a chat body: missing, a string, or of another type
ModelFields == {"absent", "string", "number"}

\* a body without messages and without model (what a podcast request carries of them)
NoMessages == [messages |-> <<>>, model |-> "absent"]

\* chat bodies: the messages list as a sequence of turns [role, len] (len is
\* content.length) and the model field
Bodies ==
    { NoMessages,
      [messages |-> <<[role |-> "user", len |-> 2]>>, model |-> "string"],
      [messages |-> <<[role |-> "user", len |-> 2]>>, model |-> "number"],
      [messages |-> <<[role |-> "system", len |-> 20000], [role |-> "tool", len |-> 5]>>,
       model |-> "absent"] }

\* longest messages list and longest array of turns drawn as an input
MaxTurns == 2

\* sequences over S of length at most n
SeqsUpTo(S, n) == UNION {[1..k -> S] : k \in 0..n}

\* turns around the limits of the schema
Turns == [role : {"system", "user", "assistant", "tool"}, len : {0, 1, 20000, 20001}]

\* chat bodies with at most MaxTurns turns
ChatBodies == [messages : SeqsUpTo(Turns, MaxTurns), model : ModelFields]

\* assistant texts a provider may return
Texts ==
    { <<"{", "script:", "[", "{", "k:", "n", "}", "]", "}">>,
      <<"fence_json", " ", "{", "script:", "[", "{", "k:", "n", "}", "]", "}", " ", "fence">>,
      <<"[", "{", "k:", "n", "}", "]">>,
      <<"w", " ", "fence_json", "[", "{", "k:", "n", "}", "]", "fence">>,
      <<"w", " ", "{", "script:", "[", "{", "}", "]", "}">>,
      <<"w", "[", "{", "w", "}", "]">>,
      <<"{", "k:", "n", "}">>,
      <<"{", "script:", "null", "}">>,
      <<"null">>,
      <<"n">>,
      <<"w">>,
      <<>> }

(***************************************************************************)
(* Request gate                                                            *)
(***************************************************************************)
PassOn == [next |-> TRUE, status |-> 200, error |-> NoError]

Reject(status, error) == [next |-> FALSE, status |-> status, error |-> error]

\* next() after the middleware has set req.user to u
PassAs(u) == [next |-> TRUE, status |-> 200, error |-> NoError, user |-> u]

\* a verifyToken that looks for the header whether or not Firebase is initialized
verifyTokenStrict(configured, authorization) ==
    IF authorization \in {"absent", "notBearer"}
    THEN Reject(401, "Unauthorized: No token provided")
    ELSE IF configured /\ authorization # "goodToken"
         THEN Reject(403, "Forbidden: Invalid token")
    ELSE PassAs("decodedToken")

\* a verifyToken that takes any Bearer header without verifying the token
verifyTokenUnverified(configured, authorization) ==
    IF ~configured THEN PassAs("anonymous")
    ELSE IF authorization \in {"absent", "notBearer"}
         THEN Reject(401, "Unauthorized: No token provided")
    ELSE PassAs("decodedToken")

\* src/api/index.js verifyToken; configured is admin.apps.length > 0
verifyToken(configured, authorization) ==
    IF ~configured THEN PassAs("anonymous")
    ELSE IF authorization \in {"absent", "notBearer"}
         THEN Reject(401, "Unauthorized: No token provided")
    ELSE IF authorization = "goodToken" THEN PassAs("decodedToken")
    ELSE Reject(403, "Forbidden: Invalid token")

\* a schema whose content has no .max(20000)
chatSchemaNoMax(body) ==
    /\ Len(body.messages) >= 1
    /\ \A k \in 1..Len(body.messages) :
          /\ body.messages[k].role \in {"system", "user", "assistant"}
          /\ body.messages[k].len >= 1
    /\ body.model \in {"absent", "string"}

\* zod chatSchema: messages non-empty, role in the enum, content length 1..20000,
\* model a string when present
chatSchema(body) ==
    /\ Len(body.messages) >= 1
    /\ \A k \in 1..Len(body.messages) :
          /\ body.messages[k].role \in {"system", "user", "assistant"}
          /\ body.messages[k].len >= 1
          /\ body.messages[k].len <= 20000
    /\ body.model \in {"absent", "string"}

\* src/api/index.js validateAIRequest
validateAIRequest(body) ==
    IF chatSchema(body) THEN PassOn ELSE Reject(400, "Invalid input data")

\* verifyToken of ../middleware/auth.js, which the router imports: the gate of the
\* design, section 4.1
authMiddleware(configured, authorization) ==
    IF ~configured THEN PassAs("anonymous")
    ELSE IF authorization \in {"absent", "notBearer"} THEN Reject(401, "Unauthorized")
    ELSE IF authorization = "goodToken" THEN PassAs("decodedToken")
    ELSE Reject(403, "Forbidden")

\* validateAIRequest of ../middleware/validation.js, which the router imports: the
\* validation of the design, section 4.1
validationMiddleware(body) ==
    IF chatSchema(body) THEN PassOn ELSE Reject(400, "ValidationError")

\* the middleware each route registers before its handler
Chain(a, r) ==
    IF r = "podcast" THEN <<"verifyToken">>
    ELSE IF a = "api" /\ r = "gemini" THEN <<>>
    ELSE <<"verifyToken", "validateAIRequest">>

(***************************************************************************)
(* State                                                                   *)
(***************************************************************************)
VARIABLES
    app,             \* the deployment serving the request
    route,           \* the route the request is posted to
    authConfigured,  \* admin.apps.length > 0
    GROQ_API_KEY,    \* TRUE iff the trimmed key is a non-empty string
    GEMINI_API_KEY,  \* TRUE iff the trimmed key is a non-empty string
    req,             \* the request: authorization, body, provider, promptThrows
    user,            \* req.user: "none", "anonymous" or "decodedToken"
    sibling,         \* an outbound call of a concurrent request in the same process:
                     \* "none", "fetch" (awaited, timer armed), "settled", "aborted"
    pc,              \* where the request is: a middleware, "handler", "fetch"
                     \* (awaiting fetchWithTimeout), "body" (awaiting the body read),
                     \* "parse" (resultText assigned, ParseSpec only), "done"
    fn,              \* the function awaiting: "route", "callGroq", "callGemini", "none"
    respOk,          \* response.ok of the headers received (meaningful at "body")
    idx,             \* callGemini: index of the cascade entry being tried, from 0
    lastError,       \* callGemini: message of lastError, NoError for null
    inflight,        \* number of outbound calls issued and neither completed nor aborted
    groqCalls,       \* outbound calls issued to Groq for this request
    geminiCalls,     \* outbound calls issued to Gemini for this request
    elapsed,         \* ms since the request arrived
    lastOutcome,     \* how the latest finished call ended
    outcomes,        \* the ways the finished calls of this request ended
    resultText,      \* the text the handler got from callGroq or callGemini
    res,             \* the response sent
    sent             \* number of responses sent

cfgVars == <<app, route, authConfigured, GROQ_API_KEY, GEMINI_API_KEY, req>>

vars == <<app, route, authConfigured, GROQ_API_KEY, GEMINI_API_KEY, req, user, sibling, pc, fn,
          respOk,
          idx, lastError, inflight, groqCalls, geminiCalls, elapsed, lastOutcome,
          outcomes, resultText, res, sent>>

Outcomes == {"ok", "timeout", "neterr", "non2xx", "badbody"}

(***************************************************************************)
(* Responses                                                               *)
(***************************************************************************)
NoResponse ==
    [status |-> 0, kind |-> "none", error |-> NoError, message |-> NoError,
     script |-> Undefined, provider |-> "", content |-> <<>>, upstreamOk |-> FALSE]

\* res.status(status).json({ error })
ErrorJson(status, error) ==
    [NoResponse EXCEPT !.status = status, !.kind = "error", !.error = error]

\* the catch block of a route handler, given the message of the error caught
CatchResponse(a, r, msg) ==
    IF a = "server" /\ r = "podcast"
    THEN [NoResponse EXCEPT !.status = 500, !.kind = "error",
                            !.error = "Generation Failed", !.message = msg]
    ELSE ErrorJson(500, msg)

\* a response whose provider field is fixed
ScriptJsonPrimary(script, provider) ==
    [NoResponse EXCEPT !.status = 200, !.kind = "script", !.script = script,
                       !.provider = "gemini"]

\* res.json({ script, provider })
ScriptJson(script, provider) ==
    [NoResponse EXCEPT !.status = 200, !.kind = "script", !.script = script,
                       !.provider = provider]

\* res.json({ choices: [{ message: { content: result, role: 'assistant' } }] })
ChatJson(text) == [NoResponse EXCEPT !.status = 200, !.kind = "chat", !.content = text]

\* res.json(data) of the chat route: the provider's body passed through
PassthroughJson(ok) ==
    [NoResponse EXCEPT !.status = 200, !.kind = "passthrough", !.upstreamOk = ok]

(***************************************************************************)
(* Handler steps.  n is the number of calls in flight once the call being   *)
(* settled (if any) is accounted for.                                      *)
(***************************************************************************)
\* the handler sends response r and returns
Send(r, n) ==
    /\ pc' = "done"
    /\ fn' = "none"
    /\ respOk' = FALSE
    /\ idx' = 0
    /\ lastError' = NoError
    /\ inflight' = n
    /\ res' = r
    /\ sent' = sent + 1
    /\ UNCHANGED <<groqCalls, geminiCalls>>

\* fetchWithTimeout: function f issues an outbound call and awaits the fetch promise
Fetch(f, i, le, n) ==
    /\ pc' = "fetch"
    /\ fn' = f
    /\ respOk' = FALSE
    /\ idx' = i
    /\ lastError' = le
    /\ inflight' = n + 1
    /\ groqCalls' = IF f = "callGemini" THEN groqCalls ELSE groqCalls + 1
    /\ geminiCalls' = IF f = "callGemini" THEN geminiCalls + 1 ELSE geminiCalls
    /\ UNCHANGED <<res, sent>>

\* the headers arrived and the function awaits response.json() or response.text()
ReadBody(ok) ==
    /\ pc' = "body"
    /\ respOk' = ok
    /\ UNCHANGED <<fn, idx, lastError, inflight, groqCalls, geminiCalls, res, sent>>

\* an error with message msg reaches the catch block of the route handler
RouteCatch(msg, n) == Send(CatchResponse(app, route, msg), n)

\* the podcast handler has resultText from provider and parses it
PodcastResult(text, provider, n) ==
    LET p == ParseScript(app, text) IN
    IF p.ok THEN Send(ScriptJson(p.script, provider), n) ELSE RouteCatch(p.error, n)

\* a catch block that answers with one fixed message whatever callGroq threw
CallGroqThrowsGeneric(msg, n) == RouteCatch("Generation Failed", n)

\* a handler that calls Groq a second time when its call failed
CallGroqRetries(msg, n) ==
    IF groqCalls < 2 THEN Fetch("callGroq", 0, NoError, n) ELSE RouteCatch(msg, n)

\* callGroq throws: both call sites of the podcast handler let it reach the catch block
CallGroqThrows(msg, n) == RouteCatch(msg, n)

\* the podcast handler of the router falls back to Groq when callGemini threw
FallbackToGroq == app = "server" /\ route = "podcast" /\ GROQ_API_KEY

\* callGemini throws an error with message msg to its caller
CallGeminiThrows(msg, n) ==
    IF FallbackToGroq THEN Fetch("callGroq", 0, NoError, n) ELSE RouteCatch(msg, n)

\* a loop that steps over the entry after a failed one
CascadeSkips(le, n) ==
    IF idx + 2 < CascadeLen(app)
    THEN Fetch("callGemini", idx + 2, le, n)
    ELSE CallGeminiThrows(IF le # NoError THEN le ELSE "Gemini inaccessible", n)

\* the router's callGemini: one cascade entry failed, le is lastError afterwards
CascadeNext(le, n) ==
    IF idx + 1 < CascadeLen(app)
    THEN Fetch("callGemini", idx + 1, le, n)
    ELSE CallGeminiThrows(IF le # NoError THEN le ELSE "Gemini inaccessible", n)

\* an await in function fn rejects with an error of message msg
Thrown(msg, n) ==
    IF fn = "callGemini"
    THEN IF app = "server" THEN CascadeNext(msg, n) ELSE CallGeminiThrows(msg, n)
    ELSE IF fn = "callGroq" THEN CallGroqThrows(msg, n)
    ELSE RouteCatch(msg, n)

\* a call finished in way o after dt ms
Finished(o, dt) ==
    /\ elapsed' = elapsed + dt
    /\ lastOutcome' = o
    /\ outcomes' = outcomes \cup {o}

\* setTimeout(..., REQUEST_TIMEOUT) called at time now: the time its callback runs
Deadline(a, now) == now + REQUEST_TIMEOUT(a)

\* one controller of the module, whose signal every fetch gets
SignalledByAll(call) == {"request", "sibling"}

\* the calls whose fetch got controller.signal of the controller that fetchWithTimeout
\* created for call: controller is a const of that invocation
Signalled(call) == {call}

\* a timer that rejects the await and leaves the request running
NoAbortOnTimeout(n) == n

\* controller.abort() when the timer fires: the call in flight is cancelled
AbortOnTimeout(n) == n - 1

\* data.choices?.[0]?.message?.content || "" (callGroq)
GroqContent(field) == IF field = UndefinedText THEN <<>> ELSE field

\* data.candidates?.[0]?.content?.parts?.[0]?.text (callGemini)
GeminiText(field) == field

(***************************************************************************)
(* Initial states: one request arriving at one route of one deployment     *)
(***************************************************************************)
Init ==
    /\ app \in Apps
    /\ route \in Routes
    /\ authConfigured \in BOOLEAN
    /\ GROQ_API_KEY \in BOOLEAN
    /\ GEMINI_API_KEY \in BOOLEAN
    /\ req \in [authorization : Authorizations, body : Bodies, provider : Providers,
                promptThrows : BOOLEAN]
    \* only podcast bodies carry provider, mode and syllabus; they carry no messages
    /\ route = "podcast" => req.body = NoMessages
    /\ route # "podcast" => req.provider = "auto" /\ ~req.promptThrows
    \* the router guards syllabus.subject with "&& syllabus", the function does not
    /\ req.promptThrows => app = "api"
    /\ user = "none"
    /\ sibling = "none"
    /\ pc = IF Chain(app, route) = <<>> THEN "handler" ELSE Head(Chain(app, route))
    /\ fn = "none"
    /\ respOk = FALSE
    /\ idx = 0
    /\ lastError = NoError
    /\ inflight = 0
    /\ groqCalls = 0
    /\ geminiCalls = 0
    /\ elapsed = 0
    /\ lastOutcome = "none"
    /\ outcomes = {}
    /\ resultText = <<>>
    /\ res = NoResponse
    /\ sent = 0

(***************************************************************************)
(* Middleware                                                              *)
(***************************************************************************)
\* next(): control passes to position p
Advance(p) ==
    /\ pc' = p
    /\ UNCHANGED <<fn, respOk, idx, lastError, inflight, groqCalls, geminiCalls, res, sent>>

\* a middleware that sends its error response without returning
GateGoesOn(g, p) ==
    /\ IF g.next THEN Advance(p)
       ELSE /\ pc' = p
            /\ res' = ErrorJson(g.status, g.error)
            /\ sent' = sent + 1
            /\ UNCHANGED <<fn, respOk, idx, lastError, inflight, groqCalls, geminiCalls>>
    /\ user' = IF g.next /\ "user" \in DOMAIN g THEN g.user ELSE user
    /\ UNCHANGED <<cfgVars, sibling, elapsed, lastOutcome, outcomes, resultText>>

\* a middleware ends: next() with req.user as the middleware set it, or an error response
Gate(g, p) ==
    /\ IF g.next THEN Advance(p) ELSE Send(ErrorJson(g.status, g.error), inflight)
    /\ user' = IF g.next /\ "user" \in DOMAIN g THEN g.user ELSE user
    /\ UNCHANGED <<cfgVars, sibling, elapsed, lastOutcome, outcomes, resultText>>

VerifyToken ==
    /\ pc = "verifyToken"
    /\ Gate(IF app = "api" THEN verifyToken(authConfigured, req.authorization)
                           ELSE authMiddleware(authConfigured, req.authorization),
            IF Len(Chain(app, route)) > 1 THEN Chain(app, route)[2] ELSE "handler")

ValidateAIRequest ==
    /\ pc = "validateAIRequest"
    /\ Gate(IF app = "api" THEN validateAIRequest(req.body)
                           ELSE validationMiddleware(req.body),
            "handler")

(***************************************************************************)
(* Route handlers up to their first await                                  *)
(***************************************************************************)
\* router.post('/groq') and app.post('/api/ai/groq')
GroqRoute ==
    /\ pc = "handler"
    /\ route = "groq"
    /\ IF GROQ_API_KEY THEN Fetch("route", 0, NoError, inflight)
       ELSE IF app = "server" THEN Send(ErrorJson(500, "Groq Key Missing"), inflight)
       ELSE RouteCatch("Missing GROQ_API_KEY", inflight)
    /\ UNCHANGED <<cfgVars, user, sibling, elapsed, lastOutcome, outcomes, resultText>>

\* router.post('/gemini') and app.post('/api/ai/gemini')
GeminiRoute ==
    /\ pc = "handler"
    /\ route = "gemini"
    /\ IF app = "api" /\ ~GEMINI_API_KEY
       THEN RouteCatch("Missing GEMINI_API_KEY", inflight)
       ELSE Fetch("callGemini", 0, NoError, inflight)
    /\ UNCHANGED <<cfgVars, user, sibling, elapsed, lastOutcome, outcomes, resultText>>

\* a selection that sends auto mode to Groq whether or not Gemini has a key
GroqFirstAlways(provider, geminiKey) == provider \in {"groq", "auto"}

\* provider === 'groq' || (provider === 'auto' && !GEMINI_API_KEY)
GroqFirst(provider, geminiKey) == provider = "groq" \/ (provider = "auto" /\ ~geminiKey)

\* router.post('/podcast') and app.post('/api/ai/podcast')
PodcastRoute ==
    /\ pc = "handler"
    /\ route = "podcast"
    /\ IF req.promptThrows THEN RouteCatch(TypeMsg, inflight)
       ELSE IF GroqFirst(req.provider, GEMINI_API_KEY)
       THEN Fetch("callGroq", 0, NoError, inflight)
       ELSE Fetch("callGemini", 0, NoError, inflight)
    /\ UNCHANGED <<cfgVars, user, sibling, elapsed, lastOutcome, outcomes, resultText>>

(***************************************************************************)
(* The awaits settle                                                       *)
(***************************************************************************)
\* the fetch promise resolves with the response headers before the deadline;
\* clearTimeout(timeoutId) runs
FetchResolves ==
    /\ pc = "fetch"
    /\ \E ok \in BOOLEAN :
          IF fn = "callGemini" /\ app = "server" /\ ~ok
          THEN \* "if (response.ok)" fails: the loop goes on, the body is never read
               /\ CascadeNext(lastError, inflight - 1)
               /\ Finished("non2xx", Latency)
          ELSE /\ ReadBody(ok)
               /\ elapsed' = elapsed + Latency
               /\ UNCHANGED <<lastOutcome, outcomes>>
    /\ UNCHANGED <<cfgVars, user, sibling, resultText>>

\* the fetch promise rejects with a FetchError before the deadline
FetchRejects ==
    /\ pc = "fetch"
    /\ Thrown(NetworkMsg, inflight - 1)
    /\ Finished("neterr", Latency)
    /\ UNCHANGED <<cfgVars, user, sibling, resultText>>

\* REQUEST_TIMEOUT ms passed without headers: the timer aborts the fetch
TimerFires ==
    /\ pc = "fetch"
    /\ Thrown(AbortMsg, AbortOnTimeout(inflight))
    /\ Finished("timeout", Deadline(app, elapsed) - elapsed)
    /\ sibling' = IF sibling = "fetch" /\ "sibling" \in Signalled("request")
                  THEN "aborted" ELSE sibling
    /\ UNCHANGED <<cfgVars, user, resultText>>

\* the body of a non-2xx response has been read
ErrorBodyArrives ==
    /\ pc = "body"
    /\ ~respOk
    /\ IF fn = "callGemini" THEN CallGeminiThrows("Gemini API Error", inflight - 1)
       ELSE IF fn = "callGroq" THEN CallGroqThrows("Groq API Error", inflight - 1)
       ELSE IF app = "server" THEN Send(PassthroughJson(FALSE), inflight - 1)
       ELSE RouteCatch("Groq API Error", inflight - 1)
    /\ Finished("non2xx", 0)
    /\ UNCHANGED <<cfgVars, user, sibling, resultText>>

\* the chat route has read the JSON body of a 2xx response
ChatBodyArrives ==
    /\ pc = "body"
    /\ respOk
    /\ fn = "route"
    /\ Send(PassthroughJson(TRUE), inflight - 1)
    /\ Finished("ok", 0)
    /\ UNCHANGED <<cfgVars, user, sibling, resultText>>

\* callGroq or callGemini has read the JSON body of a 2xx response; field is the
\* assistant-text field of the envelope, UndefinedText when the envelope lacks it
TextBodyArrives ==
    /\ pc = "body"
    /\ respOk
    /\ fn \in {"callGroq", "callGemini"}
    /\ \E field \in Texts \cup {UndefinedText} :
          /\ resultText' = IF fn = "callGroq" THEN GroqContent(field) ELSE GeminiText(field)
          /\ IF fn = "callGroq" THEN PodcastResult(GroqContent(field), "groq", inflight - 1)
             ELSE IF route = "podcast"
                  THEN PodcastResult(GeminiText(field), "gemini", inflight - 1)
             ELSE Send(ChatJson(GeminiText(field)), inflight - 1)
    /\ Finished("ok", 0)
    /\ UNCHANGED <<cfgVars, user, sibling>>

\* the body read rejects: response.json() on a body that is no JSON, or a transport
\* failure while reading; response.text() (the function, non-2xx) parses nothing
BodyFails ==
    /\ pc = "body"
    /\ \E msg \in {SyntaxMsg, NetworkMsg} :
          /\ msg = SyntaxMsg => app = "server" \/ respOk
          /\ Thrown(msg, inflight - 1)
          /\ Finished(IF ~respOk THEN "non2xx"
                      ELSE IF msg = SyntaxMsg THEN "badbody" ELSE "neterr", 0)
    /\ UNCHANGED <<cfgVars, user, sibling, resultText>>

Next ==
    \/ VerifyToken
    \/ ValidateAIRequest
    \/ GroqRoute
    \/ GeminiRoute
    \/ PodcastRoute
    \/ FetchResolves
    \/ FetchRejects
    \/ TimerFires
    \/ ErrorBodyArrives
    \/ ChatBodyArrives
    \/ TextBodyArrives
    \/ BodyFails

Spec == Init /\ [][Next]_vars

\* what the runtime guarantees: a middleware or handler that can run does run, and an
\* armed timer fires; whether and when a provider answers is up to the provider
Fairness ==
    /\ WF_vars(VerifyToken)
    /\ WF_vars(ValidateAIRequest)
    /\ WF_vars(GroqRoute)
    /\ WF_vars(GeminiRoute)
    /\ WF_vars(PodcastRoute)
    /\ WF_vars(TimerFires)

FairSpec == Spec /\ Fairness

(***************************************************************************)
(* A concurrent request of the same process: one of its outbound calls,    *)
(* made through the same fetchWithTimeout                                   *)
(***************************************************************************)
\* the request's own state is untouched
OwnUnchanged ==
    UNCHANGED <<cfgVars, user, pc, fn, respOk, idx, lastError, inflight, groqCalls,
                geminiCalls, elapsed, lastOutcome, outcomes, resultText, res, sent>>

\* the other request calls fetchWithTimeout
SiblingFetch ==
    /\ sibling = "none"
    /\ sibling' = "fetch"
    /\ OwnUnchanged

\* its fetch resolves or rejects before its deadline; clearTimeout runs
SiblingSettles ==
    /\ sibling = "fetch"
    /\ sibling' = "settled"
    /\ OwnUnchanged

\* its timer fires and aborts its controller
SiblingTimerFires ==
    /\ sibling = "fetch"
    /\ sibling' = "aborted"
    /\ OwnUnchanged

ConcurrentNext ==
    \/ Next
    \/ SiblingFetch
    \/ SiblingSettles
    \/ SiblingTimerFires

ConcurrentSpec == Init /\ [][ConcurrentNext]_vars

(***************************************************************************)
(* validateAIRequest as a function of the body: a chat request of the      *)
(* function that has passed verifyToken, with every body of ChatBodies      *)
(***************************************************************************)
\* no provider has been called and no response sent
NothingCalled ==
    /\ fn = "none"
    /\ respOk = FALSE
    /\ idx = 0
    /\ lastError = NoError
    /\ inflight = 0
    /\ groqCalls = 0
    /\ geminiCalls = 0
    /\ elapsed = 0
    /\ lastOutcome = "none"
    /\ outcomes = {}
    /\ resultText = <<>>
    /\ res = NoResponse
    /\ sent = 0

ValidateInit ==
    /\ app = "api"
    /\ route = "groq"
    /\ authConfigured = FALSE
    /\ GROQ_API_KEY \in BOOLEAN
    /\ GEMINI_API_KEY = FALSE
    /\ req \in [authorization : {"absent"}, body : ChatBodies, provider : {"auto"},
                promptThrows : {FALSE}]
    /\ user = "anonymous"
    /\ sibling = "none"
    /\ pc = "validateAIRequest"
    /\ NothingCalled

ValidateSpec == ValidateInit /\ [][ValidateAIRequest]_vars

(***************************************************************************)
(* The cleanup and parse of the podcast handler as a function of            *)
(* resultText: a podcast request whose provider call has just returned an   *)
(* array of turns, bare or wrapped in a code fence after some prose         *)
(***************************************************************************)
\* one turn of a script as JSON text, with one member or two
TurnTexts ==
    { <<"{", "k:", "n", "}">>,
      <<"{", "k:", "n", ",", "k:", "n", "}">> }

RECURSIVE JoinTurns(_)
JoinTurns(ts) ==
    IF ts = <<>> THEN <<>>
    ELSE IF Len(ts) = 1 THEN ts[1]
    ELSE ts[1] \o <<",">> \o JoinTurns(Tail(ts))

\* the JSON text of the array of the turns ts
ArrayText(ts) == <<"[">> \o JoinTurns(ts) \o <<"]">>

\* JSON arrays of at most MaxTurns turns
TurnArrays == {ArrayText(ts) : ts \in SeqsUpTo(TurnTexts, MaxTurns)}

\* prose a model puts before the fence: plain words, or words with a braced aside
Proses ==
    { <<"w", " ">>,
      <<"w", "{", "w", "}", " ">> }

\* array text a after prose, inside a code fence opened by open
Wrap(a, prose, open) == prose \o <<open, " ">> \o a \o <<" ", "fence">>

WrappedArrays == {Wrap(a, prose, open) : a \in TurnArrays, prose \in Proses, open \in FenceTokens}

ParseInit ==
    /\ app \in Apps
    /\ route = "podcast"
    /\ authConfigured = FALSE
    /\ GROQ_API_KEY = TRUE
    /\ GEMINI_API_KEY = TRUE
    /\ fn \in {"callGroq", "callGemini"}
    /\ req = [authorization |-> "absent", body |-> NoMessages,
              provider |-> IF fn = "callGroq" THEN "groq" ELSE "gemini",
              promptThrows |-> FALSE]
    /\ user = "anonymous"
    /\ sibling = "none"
    /\ pc = "parse"
    /\ respOk = TRUE
    /\ idx = 0
    /\ lastError = NoError
    /\ inflight = 0
    /\ groqCalls = IF fn = "callGroq" THEN 1 ELSE 0
    /\ geminiCalls = IF fn = "callGemini" THEN 1 ELSE 0
    /\ elapsed = Latency
    /\ lastOutcome = "ok"
    /\ outcomes = {"ok"}
    /\ resultText \in TurnArrays \cup WrappedArrays
    /\ res = NoResponse
    /\ sent = 0

\* the podcast handler from "Cleanup and Parse" to its response
ParseStructured ==
    /\ pc = "parse"
    /\ PodcastResult(resultText, IF fn = "callGroq" THEN "groq" ELSE "gemini", inflight)
    /\ UNCHANGED <<cfgVars, user, sibling, elapsed, lastOutcome, outcomes, resultText>>

ParseSpec == ParseInit /\ [][ParseStructured]_vars

(***************************************************************************)
(* Properties                                                              *)
(***************************************************************************)
Calls == groqCalls + geminiCalls

Done == pc = "done"

\* the gate must reject: verification is configured and the token is missing or
\* invalid, or the route takes a chat body and the body violates the schema
MustReject ==
    \/ authConfigured /\ req.authorization # "goodToken"
    \/ route \in {"groq", "gemini"} /\ ~chatSchema(req.body)

\* C1: a request the gate must reject gets 401, 403 or 400 and causes no provider call
C1_GateIsTerminal ==
    MustReject => Calls = 0 /\ (Done => res.status \in {400, 401, 403})

\* C2: a podcast request that names a provider calls only that provider
C2_NamedProviderOnly ==
    route = "podcast" =>
        /\ req.provider = "groq" => geminiCalls = 0
        /\ req.provider = "gemini" => groqCalls = 0

\* C3: in auto mode a provider without a key is never called
C3_AutoNeverCallsKeyless ==
    route = "podcast" /\ req.provider = "auto" =>
        /\ ~GROQ_API_KEY => groqCalls = 0
        /\ ~GEMINI_API_KEY => geminiCalls = 0

\* the request reached its handler and its only candidate provider has no key
SoleCandidateKeyless ==
    /\ pc \notin {"verifyToken", "validateAIRequest"}
    /\ ~(Done /\ res.status \in {400, 401, 403})
    /\ \/ route = "groq" /\ ~GROQ_API_KEY
       \/ route = "gemini" /\ ~GEMINI_API_KEY
       \/ route = "podcast" /\ req.provider = "groq" /\ ~GROQ_API_KEY

\* C4: when the only candidate has no key the request fails with a 500 and no call
C4_KeylessMeansNoCall ==
    SoleCandidateKeyless => Calls = 0 /\ (Done => res.status = 500 /\ res.kind = "error")

\* text that is a JSON script once the code fences are stripped: an array of turns, or
\* an object whose script member is one
Parseable(text) ==
    /\ text # UndefinedText
    /\ JsonParse(StripFences(text)).ok
    /\ ScriptOrRoot(JsonParse(StripFences(text)).val)[1] = "array"

\* C5: an auto-mode podcast request with both keys whose Gemini calls all timed out,
\* and whose Groq call did not fail, completes with provider "groq"
C5_TimeoutFallsBackToGroq ==
    /\ Done
    /\ route = "podcast" /\ req.provider = "auto" /\ GROQ_API_KEY /\ GEMINI_API_KEY
    /\ geminiCalls >= 1
    /\ \/ groqCalls = 0 /\ outcomes = {"timeout"}
       \/ groqCalls = 1 /\ outcomes = {"timeout", "ok"} /\ Parseable(resultText)
    => res.status = 200 /\ res.kind = "script" /\ res.provider = "groq"

\* C6: every outbound call, from its issue to the end of its body read, eventually ends
C6_EveryCallEnds ==
    \A k \in 1..(CascadeLen("server") + 1) :
        (inflight = 1 /\ Calls = k) ~> ~(inflight = 1 /\ Calls = k)

\* C7: the response is sent before the host limit has elapsed
C7_RespondsWithinHostLimit == Done => elapsed < HOST_LIMIT

\* the cause an error response reports
Reported(r) == IF r.message # NoError THEN r.message ELSE r.error

\* the request failed because its last provider call failed
FailedOnProvider ==
    Done /\ res.kind = "error" /\ lastOutcome \in {"timeout", "neterr", "non2xx", "badbody"}

\* C8: the error sent to the caller reports a timeout exactly when the call that failed
\* the request was ended by its deadline
C8_TimeoutIsDistinct ==
    FailedOnProvider => (Reported(res) = AbortMsg <=> lastOutcome = "timeout")

\* C9: at most one outbound call of the request is in flight
C9_OneCallAtATime == inflight <= 1

\* the Groq fallback is in flight right after the last cascade entry timed out
C9_FallbackInFlight ==
    /\ inflight = 1
    /\ pc = "fetch" /\ fn = "callGroq"
    /\ geminiCalls = CascadeLen("server")
    /\ lastOutcome = "timeout"

\* C10: Groq is called after Gemini only when every Gemini attempt failed hard, and a
\* text that does not parse fails the request with no further call
C10_FallbackOnlyAfterHardFailure ==
    /\ pc = "fetch" /\ fn = "callGroq" /\ geminiCalls >= 1
          => outcomes \subseteq {"timeout", "non2xx", "neterr"}
    /\ Done /\ lastOutcome = "ok" /\ route = "podcast" /\ ~ParseScript(app, resultText).ok
          => res.status = 500 /\ res.kind = "error" /\ inflight = 0

\* the message an error carries when it states the way o a call failed; a non-2xx
\* answer is stated by a message that is none of the others, or by the transport
\* failure of reading its body, which only the function reads
StatesCause(msg, o) ==
    IF o = "timeout" THEN msg = AbortMsg
    ELSE IF o = "neterr" THEN msg = NetworkMsg
    ELSE IF o = "badbody" THEN msg = SyntaxMsg
    ELSE /\ msg \notin {AbortMsg, SyntaxMsg, "Gemini inaccessible", NoError}
         /\ msg = NetworkMsg => app = "api"

\* callGemini ran out of cascade entries and its error went to the catch block
CascadeExhausted ==
    /\ Done /\ res.kind = "error"
    /\ geminiCalls = CascadeLen(app) /\ groqCalls = 0
    /\ lastOutcome \in {"timeout", "neterr", "non2xx", "badbody"}

\* C11: the error of an exhausted cascade states the cause of its last failed attempt
C11_CascadeReportsLastCause ==
    CascadeExhausted => StatesCause(Reported(res), lastOutcome)

\* C12: the chat route passes the provider's body through with 200 only when the
\* provider answered 2xx; a non-2xx answer gives an error response with status 500
C12_ChatNon2xxIsError ==
    route = "groq" /\ Done =>
        /\ res.kind = "passthrough" => res.upstreamOk
        /\ lastOutcome = "non2xx" => res.status = 500 /\ res.kind = "error"

\* C13: a 2xx envelope without the assistant-text field gives the empty text, and the
\* podcast handler ends in a structural error, not in a TypeError on undefined
C13_MissingFieldIsEmptyText ==
    /\ resultText # UndefinedText
    /\ Done /\ route = "podcast" /\ lastOutcome = "ok" /\ resultText = <<>>
          => /\ res.kind = "error"
             /\ Reported(res) \in {SyntaxMsg, "AI returned invalid JSON structure"}

\* C18: the cascade calls its entries one at a time in list order (the entry in flight
\* is the one after all those called so far, and nothing earlier succeeded), and it
\* ends only on a success or with every entry called
C18_CascadeInOrderUntilSuccess ==
    /\ fn = "callGemini" =>
          /\ geminiCalls = idx + 1
          /\ idx < CascadeLen(app)
          /\ inflight = 1
          /\ "ok" \notin outcomes
    /\ geminiCalls >= 1 /\ fn # "callGemini" =>
          \/ geminiCalls = CascadeLen(app)
          \/ groqCalls = 0 /\ Done /\ lastOutcome = "ok"

\* the third entry answered after the first two failed in different ways
C18_StoppedAtThirdEntry ==
    /\ app = "server" /\ Done
    /\ geminiCalls = 3 /\ groqCalls = 0
    /\ outcomes = {"timeout", "non2xx", "ok"}
    /\ lastOutcome = "ok"

\* a podcast request in auto mode when both keys are configured
AutoBothKeys ==
    route = "podcast" /\ req.provider = "auto" /\ GROQ_API_KEY /\ GEMINI_API_KEY

\* C19: in auto mode with both keys Gemini is called first, and Groq is called (once)
\* only when every cascade entry has been called and none succeeded; a script served by
\* Gemini means Groq was never called
C19_SecondaryOnlyAfterCascade ==
    AutoBothKeys =>
        /\ Calls >= 1 => geminiCalls >= 1
        /\ groqCalls >= 1 => geminiCalls = CascadeLen(app) /\ groqCalls = 1
        /\ fn = "callGroq" => "ok" \notin outcomes
        /\ Done /\ res.provider = "gemini" => groqCalls = 0

\* Groq served the script after the whole cascade failed
C19_GroqServedAfterCascade ==
    /\ AutoBothKeys /\ Done
    /\ res.kind = "script" /\ res.provider = "groq"
    /\ geminiCalls = CascadeLen("server")

\* messages by which callGroq states that its call ended in way o
GroqCause(msg, o) ==
    IF o = "timeout" THEN msg = AbortMsg
    ELSE IF o = "neterr" THEN msg = NetworkMsg
    ELSE IF o = "badbody" THEN msg = SyntaxMsg
    ELSE msg \in {"Groq API Error", SyntaxMsg, NetworkMsg}

\* messages callGemini throws after calls that ended in the ways os
GeminiCause(msg, os) ==
    \/ msg \in {"Gemini inaccessible", "Gemini API Error"}
    \/ "timeout" \in os /\ msg = AbortMsg
    \/ os \cap {"neterr", "non2xx"} # {} /\ msg = NetworkMsg
    \/ "badbody" \in os /\ msg = SyntaxMsg

\* the last provider of a podcast request was called and its call failed
AllCandidatesFailed ==
    /\ route = "podcast" /\ Done /\ Calls >= 1
    /\ lastOutcome \in {"timeout", "neterr", "non2xx", "badbody"}

\* C20: when the last provider tried has failed the response is an error with status
\* 500 that reports that provider's error: Groq's when Groq was called, else Gemini's
C20_FailedReportsLastCandidate ==
    AllCandidatesFailed =>
        /\ res.status = 500 /\ res.kind = "error"
        /\ IF groqCalls >= 1 THEN GroqCause(Reported(res), lastOutcome)
           ELSE GeminiCause(Reported(res), outcomes)

\* Gemini timed out, Groq was tried and failed in another way
C20_SecondaryFailedAfterPrimary ==
    /\ AllCandidatesFailed
    /\ geminiCalls = CascadeLen("server") /\ groqCalls = 1
    /\ "timeout" \in outcomes /\ lastOutcome = "neterr"

\* the position verifyToken passes control to
AfterVerifyToken ==
    IF Len(Chain(app, route)) > 1 THEN Chain(app, route)[2] ELSE "handler"

\* C15: when Firebase is not initialized the function's verifyToken, whatever the
\* Authorization header, sets req.user to the anonymous user and calls next() without
\* sending a response, and no 401 or 403 is ever sent
C15_UnconfiguredAuthAcceptsAll ==
    /\ [](app = "api" /\ ~authConfigured => res.status \notin {401, 403})
    /\ [][app = "api" /\ ~authConfigured /\ pc = "verifyToken" =>
             /\ user' = "anonymous"
             /\ pc' = AfterVerifyToken
             /\ res' = NoResponse /\ sent' = 0]_vars

\* a request with an invalid token went through the unconfigured verifyToken
C15_InvalidTokenPassedAsAnonymous ==
    /\ app = "api" /\ ~authConfigured
    /\ req.authorization = "badToken"
    /\ user = "anonymous"
    /\ pc = AfterVerifyToken

\* verifyToken of the function has run for this request
VerifyTokenRan ==
    app = "api" /\ Len(Chain(app, route)) >= 1 /\ pc # "verifyToken"

\* C16: when Firebase is initialized, a request without Authorization header gets 401,
\* one whose Bearer token does not verify gets 403, a rejected request gets one
\* response and nothing after the middleware runs, and anything after the middleware
\* runs only for a verified token
C16_ConfiguredAuthRejects ==
    authConfigured /\ VerifyTokenRan =>
        /\ req.authorization = "absent" => res.status = 401
        /\ req.authorization = "badToken" => res.status = 403
        /\ req.authorization # "goodToken" =>
              /\ Done /\ res.kind = "error" /\ res.status \in {401, 403}
              /\ sent = 1 /\ Calls = 0 /\ user = "none"
        /\ req.authorization = "goodToken" => user = "decodedToken"

\* a request whose token did not verify was answered 403
C16_InvalidTokenForbidden ==
    /\ authConfigured /\ VerifyTokenRan
    /\ req.authorization = "badToken"
    /\ res.status = 403 /\ Done

\* the turns of a messages list satisfy the role and length constraints
ValidTurns(messages) ==
    /\ Len(messages) >= 1
    /\ \A k \in 1..Len(messages) :
          /\ messages[k].role \in {"system", "user", "assistant"}
          /\ messages[k].len \in 1..20000

\* validateAIRequest has run
Validated == pc # "validateAIRequest"

\* the request went on to the handler untouched
Accepted == pc = "handler" /\ res = NoResponse /\ sent = 0

\* the request was answered with the one generic validation error
RejectedAsInvalid == Done /\ res = ErrorJson(400, "Invalid input data") /\ sent = 1

\* C17 as stated: validateAIRequest accepts exactly the bodies whose messages list is
\* non-empty with every role in the enum and every content length in 1..20000, and
\* answers every other body with the same generic 400
C17_AcceptsExactlyValidTurns ==
    Validated => IF ValidTurns(req.body.messages) THEN Accepted ELSE RejectedAsInvalid

\* C17 amended: validateAIRequest accepts exactly the bodies whose messages list is
\* non-empty with every role in the enum and every content length in 1..20000 and whose
\* model, when present, is a string, and answers every other body with the same
\* generic 400
C17_AcceptsExactlySchemaBodies ==
    Validated =>
        IF ValidTurns(req.body.messages) /\ req.body.model # "number"
        THEN Accepted ELSE RejectedAsInvalid

\* a body with three invalid fields got the generic 400
C17_ManyInvalidFieldsOneError ==
    /\ RejectedAsInvalid
    /\ Len(req.body.messages) = 2
    /\ req.body.messages[1].role = "tool"
    /\ req.body.messages[2].len = 20001
    /\ req.body.model = "number"

\* response r is what the handler of deployment a sends for text
ResultOf(r, a, text) ==
    LET p == ParseScript(a, text) IN
    IF p.ok THEN r.kind = "script" /\ r.status = 200 /\ r.script = p.script
    ELSE r.kind = "error" /\ r.status = 500 /\ Reported(r) = p.error

\* C14: for every JSON array of turns, the response to the array wrapped in a code
\* fence after prose is the response to the bare array
C14_FencedProseParsesAsBare ==
    pc = "done" =>
        \A a \in TurnArrays, prose \in Proses, open \in FenceTokens :
            resultText = Wrap(a, prose, open) => ResultOf(res, app, a)

\* C21: the timer of a call fires REQUEST_TIMEOUT after that call was issued, however
\* long earlier calls of the request took; it ends that call only: the call issued
\* next is in flight, and the call of a concurrent request is left as it was; the
\* timer of a concurrent request's call leaves this request as it was
C21_DeadlinePerCall ==
    [][/\ TimerFires =>
             /\ elapsed' = elapsed + REQUEST_TIMEOUT(app)
             /\ sibling' = sibling
             /\ inflight' = IF pc' = "fetch" THEN 1 ELSE 0
       /\ sibling = "fetch" /\ sibling' = "aborted" =>
             /\ pc' = pc /\ inflight' = inflight
             /\ lastOutcome' = lastOutcome /\ res' = res]_vars

\* a second cascade entry ran into its own deadline while a concurrent request's call
\* was in flight, and the third entry was issued
C21_LaterCallTimedOut ==
    /\ app = "server" /\ pc = "fetch" /\ fn = "callGemini"
    /\ geminiCalls = 3
    /\ outcomes = {"non2xx", "timeout"} /\ lastOutcome = "timeout"
    /\ elapsed = Latency + REQUEST_TIMEOUT(app)
    /\ sibling = "fetch"

\* the podcast handler got text from a provider and has parsed it
ParsedText ==
    Done /\ route = "podcast" /\ lastOutcome = "ok" /\ resultText # UndefinedText

\* the strict parse: JSON.parse of the whole text without its fence markers
StrictParse(text) == JsonParse(StripFences(text))

\* the parse of the fragment the deployment's pattern extracts from the stripped text
FragmentParse(a, text) ==
    LET clean == StripFences(text)
        match == IF a = "server" THEN MatchArrayOfObjects(clean) ELSE MatchObject(clean)
    IN  IF match = <<>> THEN [ok |-> FALSE, val |-> Undefined] ELSE JsonParse(match)

\* C22: when the strict parse of the stripped text succeeds, the response is built
\* from its result, not from an extracted fragment
C22_StrictParseFirst ==
    ParsedText /\ StrictParse(resultText).ok =>
        /\ res.kind = "script"
        /\ res.script = ScriptOrRoot(StrictParse(resultText).val)

\* C23: when neither the strict parse nor the parse of the extracted fragment
\* succeeds the response is an error with status 500 and carries no script; a
\* script is sent only when one of the two parses succeeded
C23_ParseFailsClosed ==
    ParsedText =>
        /\ res.kind = "script" =>
              StrictParse(resultText).ok \/ FragmentParse(app, resultText).ok
        /\ ~StrictParse(resultText).ok /\ ~FragmentParse(app, resultText).ok =>
              /\ res.kind = "error" /\ res.status = 500
              /\ res.script = Undefined /\ sent = 1

\* the pattern found a fragment in the text and the fragment did not parse either
C23_FragmentUnparseable ==
    /\ ParsedText /\ app = "server"
    /\ ~StrictParse(resultText).ok
    /\ MatchArrayOfObjects(StripFences(resultText)) # <<>>
    /\ ~FragmentParse(app, resultText).ok
    /\ res.status = 500

\* C24: the script of a successful podcast response is an array of turns
C24_ScriptIsSequence ==
    Done /\ route = "podcast" /\ res.kind = "script" =>
        /\ res.script[1] = "array"
        /\ \A k \in 1..Len(res.script[2]) : res.script[2][k][1] = "object"

\* C25: a request gets at most one response; it is in its terminal state exactly
\* when that response has been sent, and nothing of the request runs afterwards
C25_ExactlyOneResponse ==
    /\ [](/\ sent <= 1
          /\ Done <=> sent = 1
          /\ sent = 0 <=> res = NoResponse)
    /\ [][pc # "done"]_vars

\* the request ended in an error after the cascade and the fallback both failed
C25_FailedAfterFallback ==
    /\ Done /\ sent = 1 /\ res.kind = "error"
    /\ geminiCalls = CascadeLen("server") /\ groqCalls = 1
    /\ lastOutcome = "non2xx"

\* C26: the provider field of a successful podcast response names the provider whose
\* call returned the text that was parsed: Groq exactly when Groq was called (its
\* call is the last one of a request), else Gemini, whose successful call was the last
C26_ProviderIsTextSource ==
    Done /\ route = "podcast" /\ res.kind = "script" =>
        /\ lastOutcome = "ok"
        /\ res.provider \in {"groq", "gemini"}
        /\ res.provider = "groq" <=> groqCalls = 1
        /\ res.provider = "gemini" <=> groqCalls = 0 /\ geminiCalls >= 1

\* Groq's text was served after Gemini's calls failed on the network
C26_ServedByFallback ==
    /\ Done /\ route = "podcast" /\ res.kind = "script"
    /\ res.provider = "groq"
    /\ geminiCalls = CascadeLen("server")
    /\ outcomes = {"neterr", "ok"}

\* entry i (from 0) of callGemini's list: versions outside, models inside
Candidate(i) == <<Versions[(i \div Len(Models)) + 1], Models[(i % Len(Models)) + 1]>>

\* C27: a podcast request makes at most 6 Gemini calls and then at most 1 Groq call;
\* the cascade entries are distinct and the entry being called is a new one
C27_CallsBounded ==
    route = "podcast" =>
        /\ geminiCalls <= 6 /\ geminiCalls <= CascadeLen(app)
        /\ groqCalls <= 1
        /\ Calls <= 7
        /\ fn = "callGemini" => groqCalls = 0 /\ geminiCalls = idx + 1
        /\ \A i, j \in 0..(CascadeLen("server") - 1) : i # j => Candidate(i) # Candidate(j)

\* all seven calls of a podcast request were made
C27_SevenCalls ==
    /\ route = "podcast"
    /\ geminiCalls = 6 /\ groqCalls = 1
    /\ pc = "fetch" /\ fn = "callGroq"
    /\ outcomes = {"non2xx"}

====
